---- MODULE Spec2Model ----
(***************************************************************************)
(* Joint state cache of SimbodyHingeJoint (src/unnamed/part_000) and the   *)
(* rate-gated update scheduler of Controller                               *)
(* (src/server/controllers/Controller.cc).                                 *)
(*                                                                         *)
(* The specifications share the variables:                                 *)
(*   Spec            the hinge joint against the solver it is bound to:    *)
(*                   every solver state reports the mobilizer's counts;    *)
(*   SpecCache       its saves and restores alone;                         *)
(*   SpecAnyState    SaveSimbodyState / RestoreSimbodyState called with    *)
(*                   solver states that report arbitrary counts;           *)
(*   SpecLive        the joint's getters and SetVelocity on the live       *)
(*                   solver state;                                         *)
(*   SpecController  the controller life cycle and its update gate;        *)
(*   SpecLoop        the controller in the simulation loop, one Update     *)
(*                   per tick, for ever;                                   *)
(*   SpecLifeCycle   the controller's construction and its interfaces.     *)
(***************************************************************************)
EXTENDS Integers, Sequences, FiniteSets, TLC

\* ------------------------------------------------------------------ bounds
\* the most coordinates (and velocities) a solver state reports for a joint
MaxCount == 2
\* the most angles (and velocities) a joint has; a hinge has one
MaxAngles == 1
\* the simulation clock stops at MaxTime ticks
MaxTime == 5
\* the longest physics step, in ticks
MaxStep == 2
\* the most interfaces a controller's configuration declares
MaxIfaces == 2
\* the most clients that open one interface
MaxOpen == 1

\* Time is kept in ticks of 1/TicksPerSecond seconds (0.05 s).
TicksPerSecond == 20

\* the update rates (Hz) a configuration or a caller sets; their periods are
\* whole ticks: 0 (every tick), 2 ticks (0.1 s), 1 tick, and -1 tick
Rates == {0, 10, 20, -20}

\* the interface types a configuration names
IfaceTypes == {"laser", "position"}

\* The values a generalized coordinate or velocity takes.  The joint only
\* copies them, so two stand for all doubles: 0, the value of a
\* zero-initialized state, and one value that is not zero.
Values == {0, 1}

\* ------------------------------------------------------------ solver state
\* A SimTK::State as this joint's mobilizer sees it: the q's and the u's of
\* the mobilizer.  getNumQ/getNumU report the lengths.
NoState == [q |-> <<>>, u |-> <<>>]

SeqsOfLen(n) == [1..n -> Values]

StatesWith(nq, nu) == {[q |-> a, u |-> b] : a \in SeqsOfLen(nq), b \in SeqsOfLen(nu)}

AnyStates == UNION {StatesWith(nq, nu) : nq \in 1..MaxCount, nu \in 1..MaxCount}

ZeroState(nq, nu) == [q |-> [i \in 1..nq |-> 0], u |-> [i \in 1..nu |-> 0]]

getNumQ(s) == Len(s.q)

getNumU(s) == Len(s.u)

\* a double returned by a getter: a number or the NaN sentinel
Num(v) == [nan |-> FALSE, v |-> v]

NaN == [nan |-> TRUE, v |-> 0]

Min(a, b) == IF a < b THEN a ELSE b

VARIABLES
  \* ---- SimbodyHingeJoint
  mobodValid,                 \* !mobod.isEmptyHandle()
  angleCount,                 \* GetAngleCount()
  simbodyQ,                   \* cached positions
  simbodyU,                   \* cached velocities
  integState,                 \* simbodyPhysics->integ state (live)
  physicsInitialized,         \* this->physicsInitialized
  simbodyPhysicsInitialized,  \* simbodyPhysics->simbodyPhysicsInitialized
  simbodyPhysicsStepped,      \* simbodyPhysics->simbodyPhysicsStepped
  jop,                        \* the last joint call: arguments and results
  everSaved                   \* SaveSimbodyState has run on the joint

jointVars == <<mobodValid, angleCount, simbodyQ, simbodyU, integState,
               physicsInitialized, simbodyPhysicsInitialized,
               simbodyPhysicsStepped, jop, everSaved>>

VARIABLES
  \* ---- Controller
  phase,          \* "new" (not constructed), "failed" (the constructor threw),
                  \* "constructed", "loaded", "running" (Init done), "finished"
  entity,         \* the kind of the Entity* passed to the constructor
  parent,         \* this->parent: the kind of the entity bound, or "none"
  alwaysOn,       \* **alwaysOnP
  updateRate,     \* **updateRateP
  updatePeriod,   \* this->updatePeriod, in ticks
  lastUpdate,     \* this->lastUpdate, in ticks
  ifaces,         \* this->ifaces
  simTime,        \* Simulator::Instance()->GetSimTime(), in ticks
  physics_dt,     \* the physics engine's GetStepTime(), in ticks
  rateSet,        \* SetUpdateRate has run
  cop             \* the last controller call and what it did

ctrlVars == <<phase, entity, parent, alwaysOn, updateRate, updatePeriod,
              lastUpdate, ifaces, simTime, physics_dt, rateSet, cop>>

vars == <<jointVars, ctrlVars>>

\* the record of a joint call
\*   op      the method
\*   index   the _index argument of a getter
\*   ret     the value a getter returned
\*   state   SaveSimbodyState: the state read; RestoreSimbodyState: the
\*           state after the call
\*   fresh   RestoreSimbodyState: the target was zero before the call
\*   afterSave  RestoreSimbodyState: the call immediately before it was
\*           SaveSimbodyState
\*   live    the call read the live solver state
\*   oob     the call indexed a state outside its reported count
\*   value   SetVelocity: the _rate argument
\*   writes  RestoreSimbodyState: the number of setOneQ/setOneU calls made
\*   same    RestoreSimbodyState: the target is as it was before the call
JOp(op, index, ret, state, fresh, live, oob) ==
  [op |-> op, index |-> index, ret |-> ret, state |-> state, fresh |-> fresh,
   afterSave |-> op = "RestoreSimbodyState" /\ jop.op = "SaveSimbodyState",
   live |-> live, oob |-> oob, value |-> 0, writes |-> 0, same |-> TRUE]

NoCall ==
  [op |-> "none", index |-> 0, ret |-> Num(0), state |-> NoState, fresh |-> FALSE,
   afterSave |-> FALSE, live |-> FALSE, oob |-> FALSE, value |-> 0, writes |-> 0,
   same |-> TRUE]

\* ------------------------------------------------------------ constructor
JointInit ==
  /\ mobodValid \in BOOLEAN
  /\ angleCount \in 1..MaxAngles
  /\ simbodyQ = <<>>
  /\ simbodyU = <<>>
  /\ \E nq \in angleCount..MaxCount : integState = ZeroState(nq, angleCount)
  /\ physicsInitialized = FALSE
  /\ simbodyPhysicsInitialized = FALSE
  /\ simbodyPhysicsStepped = FALSE
  /\ jop = NoCall
  /\ everSaved = FALSE

\* ------------------------------------------------- SaveSimbodyState loops
\* the values an out-of-range getOneQ/getOneU may produce for the entries
\* lo+1..hi of the cache (an unchecked build reads whatever lies behind the
\* mobilizer's slice of the state)
Garbage(lo, hi) == [(lo + 1)..hi -> Values]

\* ReadLoop with the loop started at i = 1: entry 0 keeps its old value
ReadLoopFromOne(cache, src, g, checked) ==
  [seq |-> [i \in 1..Len(cache) |->
              IF i = 1 THEN cache[i] ELSE IF i <= Len(src) THEN src[i] ELSE g[i]],
   threw |-> FALSE, oob |-> Len(cache) > Len(src)]

\* for (i = 0; i < cache.size(); ++i) cache[i] = getOne(_state, i);
\* src is the mobilizer's slice of _state.  An index at or beyond the count
\* the state reports is outside the slice: a range-checked build throws at
\* the first such index, an unchecked build stores what it finds (g).
ReadLoop(cache, src, g, checked) ==
  IF Len(cache) <= Len(src)
    THEN [seq |-> [i \in 1..Len(cache) |-> src[i]], threw |-> FALSE, oob |-> FALSE]
    ELSE IF checked
      THEN [seq |-> [i \in 1..Len(cache) |-> IF i <= Len(src) THEN src[i] ELSE cache[i]],
            threw |-> TRUE, oob |-> TRUE]
      ELSE [seq |-> [i \in 1..Len(cache) |-> IF i <= Len(src) THEN src[i] ELSE g[i]],
            threw |-> FALSE, oob |-> TRUE]

\* ResizeIfEmpty without the empty() test: v.resize(n) on every call
ResizeAlways(v, n) == [i \in 1..n |-> IF i <= Len(v) THEN v[i] ELSE 0]

\* if (v.empty()) v.resize(n): new elements are value-initialized
ResizeIfEmpty(v, n) == IF v = <<>> THEN [i \in 1..n |-> 0] ELSE v

\* WriteLoop with the bound i + 1 < cache.size(): the last entry is not
\* written
WriteLoopSkipsLast(cache, dst, checked) ==
  [seq |-> [i \in 1..Len(dst) |-> IF i < Len(cache) THEN cache[i] ELSE dst[i]],
   threw |-> checked /\ Len(cache) - 1 > Len(dst),
   oob |-> Len(cache) - 1 > Len(dst)]

\* for (i = 0; i < cache.size(); ++i) setOne(_state, i, cache[i]);
\* A write at or beyond the count of dst is outside the mobilizer's slice:
\* a range-checked build throws there, an unchecked build writes outside
\* the slice and leaves the slice's own entries as the loop set them.
WriteLoop(cache, dst, checked) ==
  [seq |-> [i \in 1..Len(dst) |-> IF i <= Len(cache) THEN cache[i] ELSE dst[i]],
   threw |-> checked /\ Len(cache) > Len(dst),
   oob |-> Len(cache) > Len(dst)]

\* the builds that differ on a call: range-checked and unchecked when the
\* call indexes outside a slice, one (it makes no difference) otherwise
Builds(outside) == IF outside THEN BOOLEAN ELSE {FALSE}

\* the garbage an unchecked build may read in a loop; a checked build reads
\* none
GarbageFor(cache, src, checked) ==
  IF checked THEN Garbage(Len(cache), Len(cache))
  ELSE Garbage(Min(Len(src), Len(cache)), Len(cache))

\* SaveSimbodyState without the test of the handle
SaveSimbodyStateNoHandleTest(S) ==
  \E s \in S :
    LET q0 == ResizeIfEmpty(simbodyQ, getNumQ(s))
        u0 == ResizeIfEmpty(simbodyU, getNumU(s))
        rq == ReadLoop(q0, s.q, q0, TRUE)
        ru == IF rq.threw THEN [seq |-> u0, threw |-> TRUE, oob |-> FALSE]
                          ELSE ReadLoop(u0, s.u, u0, TRUE)
    IN /\ simbodyQ' = rq.seq
       /\ simbodyU' = ru.seq
       /\ jop' = JOp("SaveSimbodyState", 0, Num(0), s, FALSE, FALSE, rq.oob \/ ru.oob)
       /\ everSaved' = TRUE
       /\ UNCHANGED <<mobodValid, angleCount, integState, physicsInitialized,
                      simbodyPhysicsInitialized, simbodyPhysicsStepped>>

\* SimbodyHingeJoint::SaveSimbodyState(_state), _state drawn from S
SaveSimbodyState(S) ==
  \E s \in S :
   \E checked \in Builds(mobodValid /\ (Len(simbodyQ) > Len(s.q) \/ Len(simbodyU) > Len(s.u))) :
    IF mobodValid
    THEN LET q0 == ResizeIfEmpty(simbodyQ, getNumQ(s))
             u0 == ResizeIfEmpty(simbodyU, getNumU(s))
         IN \E gq \in GarbageFor(q0, s.q, checked), gu \in GarbageFor(u0, s.u, checked) :
              LET rq == ReadLoop(q0, s.q, gq, checked)
                  ru == IF rq.threw
                          THEN [seq |-> u0, threw |-> TRUE, oob |-> FALSE]
                          ELSE ReadLoop(u0, s.u, gu, checked)
              IN /\ simbodyQ' = rq.seq
                 /\ simbodyU' = ru.seq
                 /\ jop' = JOp("SaveSimbodyState", 0, Num(0), s, FALSE, FALSE,
                               rq.oob \/ ru.oob)
                 /\ everSaved' = TRUE
                 /\ UNCHANGED <<mobodValid, angleCount, integState,
                                physicsInitialized, simbodyPhysicsInitialized,
                                simbodyPhysicsStepped>>
    ELSE /\ jop' = JOp("SaveSimbodyState", 0, Num(0), s, FALSE, FALSE, FALSE)
         /\ everSaved' = TRUE
         /\ UNCHANGED <<mobodValid, angleCount, simbodyQ, simbodyU, integState,
                        physicsInitialized, simbodyPhysicsInitialized,
                        simbodyPhysicsStepped>>

\* SimbodyHingeJoint::RestoreSimbodyState(_state), _state drawn from S
RestoreSimbodyState(S) ==
  \E t \in S :
   \E checked \in Builds(mobodValid /\ (Len(simbodyQ) > Len(t.q) \/ Len(simbodyU) > Len(t.u))) :
    LET fresh == t = ZeroState(getNumQ(t), getNumU(t))
        wq == WriteLoop(simbodyQ, t.q, checked)
        wu == IF wq.threw
                THEN [seq |-> t.u, threw |-> TRUE, oob |-> FALSE]
                ELSE WriteLoop(simbodyU, t.u, checked)
        after == IF mobodValid THEN [q |-> wq.seq, u |-> wu.seq] ELSE t
        calls == IF ~mobodValid THEN 0
                 ELSE IF wq.threw THEN Min(Len(simbodyQ), Len(t.q) + 1)
                 ELSE IF wu.threw THEN Len(simbodyQ) + Min(Len(simbodyU), Len(t.u) + 1)
                 ELSE Len(simbodyQ) + Len(simbodyU)
    IN /\ jop' = [JOp("RestoreSimbodyState", 0, Num(0), after, fresh, FALSE,
                      mobodValid /\ (wq.oob \/ wu.oob))
                    EXCEPT !.writes = calls, !.same = (after = t)]
       /\ UNCHANGED <<everSaved, mobodValid, angleCount, simbodyQ, simbodyU, integState,
                      physicsInitialized, simbodyPhysicsInitialized,
                      simbodyPhysicsStepped>>

\* the frame of a getter: a const method, it changes no member and no
\* solver state
GetterFrame ==
  UNCHANGED <<everSaved, mobodValid, angleCount, simbodyQ, simbodyU, integState,
              physicsInitialized, simbodyPhysicsInitialized, simbodyPhysicsStepped>>

\* GetVelocity returning 0.0 where it should return NaN
GetVelocityZeroOnBadIndex ==
  \E index \in 0..MaxCount :
    LET ready == physicsInitialized /\ simbodyPhysicsInitialized
        ret == IF index < angleCount /\ ready
                 THEN Num(integState.u[index + 1]) ELSE Num(0)
    IN /\ jop' = JOp("GetVelocity", index, ret, NoState, FALSE,
                     index < angleCount /\ ready, FALSE)
       /\ GetterFrame

\* GetVelocity testing the engine's flag only, not the joint's
GetVelocityEngineFlagOnly ==
  \E index \in 0..MaxCount :
    LET ready == simbodyPhysicsInitialized
        ret == IF index < angleCount
                 THEN IF ready THEN Num(integState.u[index + 1]) ELSE Num(0)
                 ELSE NaN
    IN /\ jop' = JOp("GetVelocity", index, ret, NoState, FALSE,
                     index < angleCount /\ ready, FALSE)
       /\ GetterFrame

\* SimbodyHingeJoint::GetVelocity(_index)
GetVelocity ==
  \E index \in 0..MaxCount :
    LET ready == physicsInitialized /\ simbodyPhysicsInitialized
        ret == IF index < angleCount
                 THEN IF ready THEN Num(integState.u[index + 1]) ELSE Num(0)
                 ELSE NaN
    IN /\ jop' = JOp("GetVelocity", index, ret, NoState, FALSE,
                     index < angleCount /\ ready, FALSE)
       /\ UNCHANGED <<everSaved, mobodValid, angleCount, simbodyQ, simbodyU, integState,
                      physicsInitialized, simbodyPhysicsInitialized,
                      simbodyPhysicsStepped>>

\* GetAngleImpl reading the cached position where the cache has one
GetAngleImplFromCache ==
  \E index \in 0..MaxCount :
    LET ready == physicsInitialized /\ simbodyPhysicsInitialized
        ret == IF index < angleCount
                 THEN IF ready
                        THEN IF index < Len(simbodyQ) THEN Num(simbodyQ[index + 1])
                             ELSE Num(integState.q[index + 1])
                        ELSE Num(0)
                 ELSE NaN
    IN /\ jop' = JOp("GetAngleImpl", index, ret, NoState, FALSE,
                     index < angleCount /\ ready, FALSE)
       /\ GetterFrame

\* SimbodyHingeJoint::GetAngleImpl(_index)
GetAngleImpl ==
  \E index \in 0..MaxCount :
    LET ready == physicsInitialized /\ simbodyPhysicsInitialized
        ret == IF index < angleCount
                 THEN IF ready THEN Num(integState.q[index + 1]) ELSE Num(0)
                 ELSE NaN
    IN /\ jop' = JOp("GetAngleImpl", index, ret, NoState, FALSE,
                     index < angleCount /\ ready, FALSE)
       /\ GetterFrame

\* GetAxisFrame(_index).RotateVector(GetLocalAxis(_index)): the joint's
\* local axis in the frame its SDF names, one fixed vector per joint
RotatedLocalAxis == 1

\* the z axis of the mobilizer's outboard frame expressed in Ground: it
\* follows from the poses of the bodies up the tree, any of the vectors
GroundAxes == Values

\* GetGlobalAxis answering NaN while the engine has not stepped
GetGlobalAxisNaNBeforeStep ==
  \E index \in 0..MaxCount :
    \E z_W \in GroundAxes :
      LET stepped == simbodyPhysicsStepped /\ index < angleCount
          ret == IF stepped THEN Num(z_W) ELSE NaN
      IN /\ stepped => mobodValid
         /\ ~stepped => z_W = 0
         /\ jop' = JOp("GetGlobalAxis", index, ret, NoState, FALSE, stepped, FALSE)
         /\ GetterFrame

\* SimbodyHingeJoint::GetGlobalAxis(_index); a vector is NaN (all three
\* components) or one of the vectors.  The branch that reads the outboard
\* frame goes through the mobilizer's handle with no test of it: the call
\* is made there on a joint bound to its mobilizer.
GetGlobalAxis ==
  \E index \in 0..MaxCount :
    \E z_W \in GroundAxes :
      LET stepped == simbodyPhysicsStepped /\ index < angleCount
          ret == IF stepped THEN Num(z_W)
                 ELSE IF index >= angleCount THEN NaN
                 ELSE Num(RotatedLocalAxis)
      IN /\ stepped => mobodValid
         /\ ~stepped => z_W = 0
         /\ jop' = JOp("GetGlobalAxis", index, ret, NoState, FALSE, stepped, FALSE)
         /\ UNCHANGED <<everSaved, mobodValid, angleCount, simbodyQ, simbodyU,
                        integState, physicsInitialized, simbodyPhysicsInitialized,
                        simbodyPhysicsStepped>>

\* SetVelocity that writes the cached velocity too
SetVelocityWriteThrough ==
  \E index \in 0..MaxCount, rate \in Values :
    /\ index < angleCount => mobodValid
    /\ integState' = IF index < angleCount
                       THEN [integState EXCEPT !.u[index + 1] = rate]
                       ELSE integState
    /\ simbodyU' = IF index < angleCount /\ index < Len(simbodyU)
                     THEN [simbodyU EXCEPT ![index + 1] = rate]
                     ELSE simbodyU
    /\ jop' = [JOp("SetVelocity", index, Num(0), NoState, FALSE, FALSE, FALSE)
                 EXCEPT !.value = rate]
    /\ UNCHANGED <<everSaved, mobodValid, angleCount, simbodyQ, physicsInitialized,
                   simbodyPhysicsInitialized, simbodyPhysicsStepped>>

\* SimbodyHingeJoint::SetVelocity(_index, _rate).  setOneU goes through the
\* mobilizer's handle with no test of it: the in-range call is made on a
\* joint bound to its mobilizer.
SetVelocity ==
  \E index \in 0..MaxCount, rate \in Values :
    /\ index < angleCount => mobodValid
    /\ integState' = IF index < angleCount
                       THEN [integState EXCEPT !.u[index + 1] = rate]
                       ELSE integState
    /\ jop' = [JOp("SetVelocity", index, Num(0), NoState, FALSE, FALSE, FALSE)
                 EXCEPT !.value = rate]
    /\ UNCHANGED <<everSaved, mobodValid, angleCount, simbodyQ, simbodyU,
                   physicsInitialized, simbodyPhysicsInitialized,
                   simbodyPhysicsStepped>>

\* ---------------------------------------------------------- the engine
\* The physics engine binds the joint to its mobilizer: the joint's
\* physicsInitialized flag, read by the getters.
PhysicsInit ==
  /\ mobodValid
  /\ ~physicsInitialized
  /\ physicsInitialized' = TRUE
  /\ jop' = NoCall
  /\ UNCHANGED <<everSaved, mobodValid, angleCount, simbodyQ, simbodyU, integState,
                 simbodyPhysicsInitialized, simbodyPhysicsStepped>>

\* The engine (re)builds its system: a new zero state, initialized and not
\* yet stepped.
EngineInit ==
  /\ simbodyPhysicsInitialized' = TRUE
  /\ simbodyPhysicsStepped' = FALSE
  /\ integState' = ZeroState(getNumQ(integState), getNumU(integState))
  /\ jop' = NoCall
  /\ UNCHANGED <<everSaved, mobodValid, angleCount, simbodyQ, simbodyU, physicsInitialized>>

\* One integration step: the live state takes new values.
EngineStep ==
  /\ simbodyPhysicsInitialized
  /\ simbodyPhysicsStepped' = TRUE
  /\ integState' \in StatesWith(getNumQ(integState), getNumU(integState))
  /\ jop' = NoCall
  /\ UNCHANGED <<everSaved, mobodValid, angleCount, simbodyQ, simbodyU, physicsInitialized,
                 simbodyPhysicsInitialized>>

\* the states of the solver the joint is bound to: all report the counts of
\* the joint's mobilizer
OwnStates == StatesWith(getNumQ(integState), getNumU(integState))

\* freshly constructed states of any counts
AnyZeroStates == {ZeroState(nq, nu) : nq \in 1..MaxCount, nu \in 1..MaxCount}

\* ---------------------------------------------------------- Controller
\* the record of a controller call
\*   op        the method
\*   ran       Update: UpdateChild was called
\*   elapsed   Update: simTime - lastUpdate at the call
\*   active    Update, Fini: IsConnected() at the call
\*   released  Fini: the interfaces deleted
\*   rate      Load, SetUpdateRate: the rate passed to SetUpdateRate
\*   again     Fini: the call immediately before it was Fini
\*   threw     the constructor, GetIface: the call ended in gzthrow
\*   arg       GetIface: the arguments
\*   ret       GetIface: the position in ifaces of the interface returned,
\*             0 for NULL
NoArg == [type |-> "", mandatory |-> FALSE, number |-> 0]

COp(op, ran, elapsed, active, released) ==
  [op |-> op, ran |-> ran, elapsed |-> elapsed, active |-> active,
   released |-> released, rate |-> 0,
   again |-> op = "Fini" /\ cop.op = "Fini",
   threw |-> FALSE, arg |-> NoArg, ret |-> 0]

Did(op) == COp(op, FALSE, 0, FALSE, 0)

SetRate(op, rate) == [Did(op) EXCEPT !.rate = rate]

\* the kinds of entity a controller is constructed on: a Model, a Sensor,
\* another Entity (a Body), or a null pointer
HostKinds == {"Model", "Sensor", "Body", "NULL"}

\* Before Controller::Controller has run.  The members are shown with the
\* values the constructor's first lines give them: the parameters take
\* their defaults, updatePeriod and lastUpdate are default-constructed Times.
ControllerInit ==
  /\ phase = "new"
  /\ entity \in HostKinds
  /\ parent = "none"
  /\ alwaysOn = FALSE
  /\ updateRate = 10
  /\ updatePeriod = 0
  /\ lastUpdate = 0
  /\ ifaces = <<>>
  /\ simTime = 0
  /\ physics_dt = 1
  /\ rateSet = FALSE
  /\ cop = [op |-> "none", ran |-> FALSE, elapsed |-> 0, active |-> FALSE,
            released |-> 0, rate |-> 0, again |-> FALSE, threw |-> FALSE,
            arg |-> NoArg, ret |-> 0]

\* the constructor binding the parent before it tests the entity's type
ConstructBindsFirst ==
  /\ phase = "new"
  /\ parent' = entity
  /\ IF entity \in {"Model", "Sensor"}
       THEN phase' = "constructed" /\ cop' = Did("Controller")
       ELSE phase' = "failed" /\ cop' = [Did("Controller") EXCEPT !.threw = TRUE]
  /\ UNCHANGED <<entity, alwaysOn, updateRate, updatePeriod, lastUpdate, ifaces,
                 simTime, physics_dt, rateSet>>

\* Controller::Controller(entity): gzthrow unless the entity is a Model or
\* a Sensor (dynamic_cast of anything else, a null pointer included, gives
\* null); the throw leaves the constructor before parent is assigned
Construct ==
  /\ phase = "new"
  /\ IF entity \in {"Model", "Sensor"}
       THEN /\ phase' = "constructed"
            /\ parent' = entity
            /\ cop' = Did("Controller")
       ELSE /\ phase' = "failed"
            /\ parent' = parent
            /\ cop' = [Did("Controller") EXCEPT !.threw = TRUE]
  /\ UNCHANGED <<entity, alwaysOn, updateRate, updatePeriod, lastUpdate, ifaces,
                 simTime, physics_dt, rateSet>>

\* 1.0 / rate as a Time
PeriodOf(rate) == IF rate = 0 THEN 0 ELSE TicksPerSecond \div rate

\* the loop of Controller::IsConnected from position i on
RECURSIVE AnyOpenFrom(_, _)
AnyOpenFrom(ifs, i) ==
  IF i > Len(ifs) THEN FALSE
  ELSE IF ifs[i].open > 0 THEN TRUE
  ELSE AnyOpenFrom(ifs, i + 1)

\* IsConnected that looks at the first interface only
IsConnectedFirstOnly(ao, ifs) ==
  IF ao THEN TRUE ELSE Len(ifs) > 0 /\ ifs[1].open > 0

\* Controller::IsConnected
IsConnected(ao, ifs) ==
  IF ao THEN TRUE ELSE AnyOpenFrom(ifs, 1)

\* (a / b >= 0) on Times, b # 0: the sign of the quotient
QuotientNonNegative(a, b) == (a >= 0 /\ b > 0) \/ (a <= 0 /\ b < 0)

\* the interface lists a configuration declares: every interface is created
\* with no client
LoadedIfaces ==
  UNION {[1..n -> [type : IfaceTypes, open : {0}]] : n \in 0..MaxIfaces}

\* SetUpdateRate that forgets updateRateP->SetValue(rate)
SetUpdateRateNoStore(rate) ==
  /\ updatePeriod' = PeriodOf(rate)
  /\ updateRate' = updateRate
  /\ rateSet' = TRUE

\* the body of Controller::SetUpdateRate(rate)
SetUpdateRateBody(rate) ==
  /\ updatePeriod' = PeriodOf(rate)
  /\ updateRate' = rate
  /\ rateSet' = TRUE

\* Controller::Load: the parameters and the interfaces of the configuration;
\* the world's configuration sets the physics step
Load ==
  /\ phase = "constructed"
  /\ parent # "none"
  /\ phase' = "loaded"
  /\ alwaysOn' \in BOOLEAN
  /\ \E rate \in Rates : SetUpdateRateBody(rate) /\ cop' = SetRate("Load", rate)
  /\ ifaces' \in LoadedIfaces
  /\ physics_dt' \in 1..MaxStep
  /\ UNCHANGED <<entity, parent, lastUpdate, simTime>>

\* Controller::SetUpdateRate, called from outside (the parameter's callback)
SetUpdateRate ==
  /\ phase \notin {"new", "failed"}
  /\ \E rate \in Rates :
       SetUpdateRateBody(rate) /\ cop' = SetRate("SetUpdateRate", rate)
  /\ UNCHANGED <<phase, entity, parent, alwaysOn, lastUpdate, ifaces, simTime, physics_dt>>

\* Controller::Init
ControllerInitCall ==
  /\ phase = "loaded"
  /\ phase' = "running"
  /\ lastUpdate' = simTime
  /\ cop' = Did("Init")
  /\ UNCHANGED <<entity, parent, alwaysOn, updateRate, updatePeriod, ifaces, simTime,
                 physics_dt, rateSet>>

\* Controller::Reset
Reset ==
  /\ phase = "running"
  /\ cop' = Did("Reset")
  /\ UNCHANGED <<phase, entity, parent, alwaysOn, updateRate, updatePeriod, lastUpdate, ifaces,
                 simTime, physics_dt, rateSet>>

\* Update with lastUpdate stamped on every call on an active controller
UpdateStampsAlways ==
  /\ phase \in {"running", "finished"}
  /\ LET active == IsConnected(alwaysOn, ifaces) \/ alwaysOn
         due == QuotientNonNegative(simTime - lastUpdate - updatePeriod, physics_dt)
     IN /\ lastUpdate' = IF active THEN simTime ELSE lastUpdate
        /\ cop' = COp("Update", active /\ due, simTime - lastUpdate,
                      IsConnected(alwaysOn, ifaces), 0)
  /\ UNCHANGED <<phase, entity, parent, alwaysOn, updateRate, updatePeriod, ifaces, simTime,
                 physics_dt, rateSet>>

\* Update with the gate (simTime - lastUpdate - updatePeriod) / physics_dt > 0
UpdateStrictGate ==
  /\ phase \in {"running", "finished"}
  /\ LET active == IsConnected(alwaysOn, ifaces) \/ alwaysOn
         due == /\ QuotientNonNegative(simTime - lastUpdate - updatePeriod, physics_dt)
                /\ simTime - lastUpdate - updatePeriod # 0
     IN /\ lastUpdate' = IF active /\ due THEN simTime ELSE lastUpdate
        /\ cop' = COp("Update", active /\ due, simTime - lastUpdate,
                      IsConnected(alwaysOn, ifaces), 0)
  /\ UNCHANGED <<phase, entity, parent, alwaysOn, updateRate, updatePeriod, ifaces, simTime,
                 physics_dt, rateSet>>

\* Update that takes a zero period to mean "never"
UpdateZeroPeriodNever ==
  /\ phase \in {"running", "finished"}
  /\ LET active == IsConnected(alwaysOn, ifaces) \/ alwaysOn
         due == /\ updatePeriod # 0
                /\ QuotientNonNegative(simTime - lastUpdate - updatePeriod, physics_dt)
     IN /\ lastUpdate' = IF active /\ due THEN simTime ELSE lastUpdate
        /\ cop' = COp("Update", active /\ due, simTime - lastUpdate,
                      IsConnected(alwaysOn, ifaces), 0)
  /\ UNCHANGED <<phase, entity, parent, alwaysOn, updateRate, updatePeriod, ifaces, simTime,
                 physics_dt, rateSet>>

\* Controller::Update
Update ==
  /\ phase \in {"running", "finished"}
  /\ LET active == IsConnected(alwaysOn, ifaces) \/ alwaysOn
         due == QuotientNonNegative(simTime - lastUpdate - updatePeriod, physics_dt)
     IN /\ lastUpdate' = IF active /\ due THEN simTime ELSE lastUpdate
        /\ cop' = COp("Update", active /\ due, simTime - lastUpdate,
                      IsConnected(alwaysOn, ifaces), 0)
  /\ UNCHANGED <<phase, entity, parent, alwaysOn, updateRate, updatePeriod, ifaces, simTime,
                 physics_dt, rateSet>>

\* Fini that deletes the interfaces and forgets ifaces.clear()
FiniNoClear ==
  /\ phase \in {"running", "finished"}
  /\ phase' = "finished"
  /\ ifaces' = ifaces
  /\ cop' = COp("Fini", FALSE, 0, IsConnected(alwaysOn, ifaces), Len(ifaces))
  /\ UNCHANGED <<entity, parent, alwaysOn, updateRate, updatePeriod, lastUpdate, simTime,
                 physics_dt, rateSet>>

\* Controller::Fini
Fini ==
  /\ phase \in {"running", "finished"}
  /\ phase' = "finished"
  /\ ifaces' = <<>>
  /\ cop' = COp("Fini", FALSE, 0, IsConnected(alwaysOn, ifaces), Len(ifaces))
  /\ UNCHANGED <<entity, parent, alwaysOn, updateRate, updatePeriod, lastUpdate, simTime,
                 physics_dt, rateSet>>

\* the loop of Controller::GetIface from position i on: order counts down
\* the interfaces of the type still to skip, iface is the position of the
\* interface picked so far (0 for NULL)
RECURSIVE GetIfaceLoop(_, _, _, _, _)
GetIfaceLoop(ifs, i, type, order, iface) ==
  IF i > Len(ifs) THEN iface
  ELSE IF ifs[i].type = type
    THEN IF order = 0
      THEN GetIfaceLoop(ifs, i + 1, type, order, i)
      ELSE GetIfaceLoop(ifs, i + 1, type, order - 1, iface)
    ELSE GetIfaceLoop(ifs, i + 1, type, order, iface)

\* Controller::GetIface(type, mandatory, number)
GetIface ==
  /\ phase \in {"loaded", "running", "finished"}
  /\ \E type \in IfaceTypes, mandatory \in BOOLEAN, number \in 0..MaxIfaces :
       LET iface == GetIfaceLoop(ifaces, 1, type, number, 0)
       IN cop' = [Did("GetIface") EXCEPT
                    !.arg = [type |-> type, mandatory |-> mandatory, number |-> number],
                    !.ret = iface,
                    !.threw = (iface = 0 /\ mandatory)]
  /\ UNCHANGED <<phase, entity, parent, alwaysOn, updateRate, updatePeriod, lastUpdate,
                 ifaces, simTime, physics_dt, rateSet>>

\* ------------------------------------------- the controller's surroundings
\* a client opens interface i: its GetOpenCount() rises by one
IfaceOpen ==
  /\ \E i \in 1..Len(ifaces) :
       /\ ifaces[i].open < MaxOpen
       /\ ifaces' = [ifaces EXCEPT ![i].open = @ + 1]
  /\ cop' = Did("IfaceOpen")
  /\ UNCHANGED <<phase, entity, parent, alwaysOn, updateRate, updatePeriod, lastUpdate, simTime,
                 physics_dt, rateSet>>

\* a client closes interface i
IfaceClose ==
  /\ \E i \in 1..Len(ifaces) :
       /\ ifaces[i].open > 0
       /\ ifaces' = [ifaces EXCEPT ![i].open = @ - 1]
  /\ cop' = Did("IfaceClose")
  /\ UNCHANGED <<phase, entity, parent, alwaysOn, updateRate, updatePeriod, lastUpdate, simTime,
                 physics_dt, rateSet>>

\* the simulator advances the clock by one physics step
Tick ==
  /\ simTime + physics_dt <= MaxTime
  /\ simTime' = simTime + physics_dt
  /\ cop' = Did("Tick")
  /\ UNCHANGED <<phase, entity, parent, alwaysOn, updateRate, updatePeriod, lastUpdate, ifaces,
                 physics_dt, rateSet>>

\* The simulation loop, one tick: the clock advances by one physics step
\* once Update has been called for the tick before.  The controller uses
\* the clock in differences only (simTime - lastUpdate), so where the clock
\* would pass MaxTime its origin is moved to lastUpdate; a controller that
\* has not updated for MaxTime ticks is followed no further.
LoopTick ==
  /\ phase = "running"
  /\ cop.op # "Tick"
  /\ simTime - lastUpdate + physics_dt <= MaxTime
  /\ IF simTime + physics_dt <= MaxTime
       THEN simTime' = simTime + physics_dt /\ lastUpdate' = lastUpdate
       ELSE simTime' = simTime - lastUpdate + physics_dt /\ lastUpdate' = 0
  /\ cop' = Did("Tick")
  /\ UNCHANGED <<phase, entity, parent, alwaysOn, updateRate, updatePeriod, ifaces,
                 physics_dt, rateSet>>

\* The simulation loop calls Update once per tick.
LoopUpdate ==
  /\ cop.op = "Tick"
  /\ Update

\* ------------------------------------------------------ specifications
\* a joint and a controller, the controller not yet constructed
InitAll == JointInit /\ ControllerInit

\* the controller's host is a Model where the host makes no difference
Init == InitAll /\ entity = "Model"

\* The joint against the solver it is bound to.
Next ==
  \/ SaveSimbodyState(OwnStates) /\ UNCHANGED ctrlVars
  \/ RestoreSimbodyState(OwnStates) /\ UNCHANGED ctrlVars
  \/ GetVelocity /\ UNCHANGED ctrlVars
  \/ PhysicsInit /\ UNCHANGED ctrlVars
  \/ EngineInit /\ UNCHANGED ctrlVars
  \/ EngineStep /\ UNCHANGED ctrlVars

Spec == Init /\ [][Next]_vars

\* The cache alone: saves and restores on a joint whose engine is left as
\* it was constructed.
NextCache ==
  \/ SaveSimbodyState(OwnStates) /\ UNCHANGED ctrlVars
  \/ RestoreSimbodyState(OwnStates) /\ UNCHANGED ctrlVars

SpecCache == Init /\ [][NextCache]_vars

\* The joint's reads and writes of the live state: the engine saves the
\* live state into the cache, steps and rebuilds; callers read velocity,
\* angle and axis and set the velocity.
NextLive ==
  \/ SaveSimbodyState({integState}) /\ UNCHANGED ctrlVars
  \/ GetVelocity /\ UNCHANGED ctrlVars
  \/ GetAngleImpl /\ UNCHANGED ctrlVars
  \/ GetGlobalAxis /\ UNCHANGED ctrlVars
  \/ SetVelocity /\ UNCHANGED ctrlVars
  \/ PhysicsInit /\ UNCHANGED ctrlVars
  \/ EngineInit /\ UNCHANGED ctrlVars
  \/ EngineStep /\ UNCHANGED ctrlVars

\* a hinge's mobilizer has one coordinate per velocity
InitLive == Init /\ getNumQ(integState) = angleCount

SpecLive == InitLive /\ [][NextLive]_vars

\* SaveSimbodyState against solver states that report any counts, and
\* RestoreSimbodyState into fresh states of any counts.  A run is followed
\* up to its first access outside a slice: the call after it starts from a
\* cache that a run without such an access reaches too.
NextAnyState ==
  \/ ~jop.oob /\ SaveSimbodyState(AnyStates) /\ UNCHANGED ctrlVars
  \/ ~jop.oob /\ RestoreSimbodyState(AnyZeroStates) /\ UNCHANGED ctrlVars

\* one joint suffices there: the calls read nothing of the live state
InitAnyState == Init /\ angleCount = 1 /\ getNumQ(integState) = 1

SpecAnyState == InitAnyState /\ [][NextAnyState]_vars

\* The controller, its clock and the clients of its interfaces.
NextController ==
  \/ Construct /\ UNCHANGED jointVars
  \/ Load /\ UNCHANGED jointVars
  \/ SetUpdateRate /\ UNCHANGED jointVars
  \/ ControllerInitCall /\ UNCHANGED jointVars
  \/ Reset /\ UNCHANGED jointVars
  \/ Update /\ UNCHANGED jointVars
  \/ Fini /\ UNCHANGED jointVars
  \/ IfaceOpen /\ UNCHANGED jointVars
  \/ IfaceClose /\ UNCHANGED jointVars
  \/ Tick /\ UNCHANGED jointVars

\* one joint, left alone
InitController ==
  Init /\ mobodValid /\ angleCount = 1 /\ getNumQ(integState) = 1

SpecController == InitController /\ [][NextController]_vars

\* The controller in the simulation loop: constructed, loaded, opened by
\* clients and initialized, then one Update per tick for ever, with the
\* period and the clients as they were at Init.
NextLoop ==
  \/ Construct /\ UNCHANGED jointVars
  \/ Load /\ UNCHANGED jointVars
  \/ phase = "loaded" /\ IfaceOpen /\ UNCHANGED jointVars
  \/ ControllerInitCall /\ UNCHANGED jointVars
  \/ LoopTick /\ UNCHANGED jointVars
  \/ LoopUpdate /\ UNCHANGED jointVars

\* the loop never stops: it ticks and it calls Update
SpecLoop ==
  /\ InitController
  /\ [][NextLoop]_vars
  /\ WF_vars(LoopTick /\ UNCHANGED jointVars)
  /\ WF_vars(LoopUpdate /\ UNCHANGED jointVars)

\* The controller from its construction on any kind of entity to Fini, and
\* the callers that ask it for its interfaces; the clock stands still and
\* no client opens an interface.
NextLifeCycle ==
  \/ Construct /\ UNCHANGED jointVars
  \/ Load /\ UNCHANGED jointVars
  \/ ControllerInitCall /\ UNCHANGED jointVars
  \/ GetIface /\ UNCHANGED jointVars
  \/ Fini /\ UNCHANGED jointVars

InitLifeCycle ==
  InitAll /\ mobodValid /\ angleCount = 1 /\ getNumQ(integState) = 1

SpecLifeCycle == InitLifeCycle /\ [][NextLifeCycle]_vars

\* ------------------------------------------------------ joint state cache
\* C1: for a joint with a valid handle, SaveSimbodyState(s) followed
\* immediately by RestoreSimbodyState on a zero-initialized state with the
\* counts of s leaves that state equal to s, position by position and
\* velocity by velocity.
C1_RoundTrip ==
  [][(/\ mobodValid
      /\ jop.op = "SaveSimbodyState"
      /\ jop'.op = "RestoreSimbodyState"
      /\ jop'.fresh
      /\ getNumQ(jop'.state) = getNumQ(jop.state)
      /\ getNumU(jop'.state) = getNumU(jop.state))
     => (/\ \A i \in 1..getNumQ(jop.state) : jop'.state.q[i] = jop.state.q[i]
         /\ \A i \in 1..getNumU(jop.state) : jop'.state.u[i] = jop.state.u[i])]_vars

\* a zero state restored right after a save of a state with no zero in it
C1_Witness ==
  /\ mobodValid
  /\ jop.op = "RestoreSimbodyState"
  /\ jop.afterSave
  /\ jop.fresh
  /\ getNumQ(jop.state) = MaxCount
  /\ \A i \in 1..getNumQ(jop.state) : jop.state.q[i] = 1
  /\ \A i \in 1..getNumU(jop.state) : jop.state.u[i] = 1

\* C2 (as stated): after every SaveSimbodyState(s) on a joint with a valid
\* handle the cached sequences have the lengths s reports and entry i of
\* each is the value of s at i.
C2_SaveMatchesState ==
  (mobodValid /\ jop.op = "SaveSimbodyState")
    => (/\ Len(simbodyQ) = getNumQ(jop.state)
        /\ Len(simbodyU) = getNumU(jop.state)
        /\ \A i \in 1..Len(simbodyQ) : simbodyQ[i] = jop.state.q[i]
        /\ \A i \in 1..Len(simbodyU) : simbodyU[i] = jop.state.u[i])

\* C2 (amended): after SaveSimbodyState(s) on a joint with a valid handle
\* whose cached sequences were each empty or no longer than the count s
\* reports, each cached sequence has the count's length if it was empty and
\* its previous length otherwise, and entry i of each is the value of s at
\* i for every i below that length.
C2_SaveFillsCache ==
  [][(/\ mobodValid
      /\ jop'.op = "SaveSimbodyState"
      /\ Len(simbodyQ) <= getNumQ(jop'.state)
      /\ Len(simbodyU) <= getNumU(jop'.state))
     => (/\ Len(simbodyQ') = (IF simbodyQ = <<>> THEN getNumQ(jop'.state) ELSE Len(simbodyQ))
         /\ Len(simbodyU') = (IF simbodyU = <<>> THEN getNumU(jop'.state) ELSE Len(simbodyU))
         /\ \A i \in 1..Len(simbodyQ') : simbodyQ'[i] = jop'.state.q[i]
         /\ \A i \in 1..Len(simbodyU') : simbodyU'[i] = jop'.state.u[i])]_vars

\* a save of a state that reports more coordinates and more velocities than
\* the cache holds
C2_Witness ==
  /\ mobodValid
  /\ jop.op = "SaveSimbodyState"
  /\ ~jop.oob
  /\ Len(simbodyQ) < getNumQ(jop.state)
  /\ Len(simbodyU) < getNumU(jop.state)
  /\ simbodyQ[1] = 1
  /\ simbodyU[1] = 1

\* C3: once SaveSimbodyState has run on a joint with a valid handle, no
\* later SaveSimbodyState or RestoreSimbodyState changes the length of the
\* cached positions or of the cached velocities.
C3_SizedOnce ==
  [][(mobodValid /\ everSaved)
     => (Len(simbodyQ') = Len(simbodyQ) /\ Len(simbodyU') = Len(simbodyU))]_vars

\* a later save of a state that reports other counts than the cache has
C3_Witness ==
  /\ mobodValid
  /\ everSaved
  /\ jop.op = "SaveSimbodyState"
  /\ Len(simbodyQ) # getNumQ(jop.state)
  /\ Len(simbodyU) # getNumU(jop.state)

\* C4: GetVelocity(i) with i >= GetAngleCount() returns NaN and changes
\* neither the cache, nor the live solver state, nor the initialization
\* flags.
C4_BadIndexIsNaN ==
  [][(jop'.op = "GetVelocity" /\ jop'.index >= angleCount)
     => (/\ jop'.ret = NaN
         /\ UNCHANGED <<simbodyQ, simbodyU, integState, mobodValid, angleCount,
                        physicsInitialized, simbodyPhysicsInitialized,
                        simbodyPhysicsStepped>>)]_vars

\* an out-of-range read of an initialized, stepped solver with a filled cache
C4_Witness ==
  /\ jop.op = "GetVelocity"
  /\ jop.index >= angleCount
  /\ jop.ret = NaN
  /\ physicsInitialized
  /\ simbodyPhysicsInitialized
  /\ simbodyPhysicsStepped
  /\ integState.u[1] = 1
  /\ simbodyU # <<>>
  /\ simbodyU[1] = 1

\* C5: GetVelocity(i) with i < GetAngleCount(), called while the joint's
\* physicsInitialized or the engine's simbodyPhysicsInitialized is false,
\* returns 0.0 and does not read the solver state.
C5_ZeroBeforeInit ==
  (/\ jop.op = "GetVelocity"
   /\ jop.index < angleCount
   /\ ~(physicsInitialized /\ simbodyPhysicsInitialized))
    => (jop.ret = Num(0) /\ ~jop.live)

\* an in-range read while the joint is not initialized, the live velocity
\* and the cached velocity both being 1
C5_Witness ==
  /\ jop.op = "GetVelocity"
  /\ jop.index < angleCount
  /\ ~physicsInitialized
  /\ simbodyPhysicsInitialized
  /\ integState.u[jop.index + 1] = 1
  /\ simbodyU # <<>>
  /\ simbodyU[jop.index + 1] = 1
  /\ jop.ret = Num(0)

\* ----------------------------------------------------- update scheduler
\* C6: after SetUpdateRate(r), at load time or later, the stored rate is r,
\* and in every state after the first SetUpdateRate updatePeriod is 0 if the
\* stored rate is 0 and 1 / rate otherwise (the period times the rate is one
\* second): rate 0 gives 0, rate 10 gives 0.1 s.
C6_RateAndPeriodAgree ==
  /\ cop.op \in {"Load", "SetUpdateRate"} => (rateSet /\ updateRate = cop.rate)
  /\ rateSet =>
       (/\ updateRate = 0 => updatePeriod = 0
        /\ updateRate # 0 => updatePeriod * updateRate = TicksPerSecond
        /\ updateRate = 10 => 10 * updatePeriod = TicksPerSecond)

\* the rate changed to 10 Hz after the load
C6_Witness ==
  /\ cop.op = "SetUpdateRate"
  /\ cop.rate = 10
  /\ phase = "running"
  /\ updateRate = 10
  /\ 10 * updatePeriod = TicksPerSecond

\* C7: Update calls UpdateChild if and only if IsConnected() is true and
\* floor((simTime - lastUpdate - updatePeriod) / physics_dt) >= 0; with a
\* period p > 0 an Update before lastUpdate + p does not run it and an
\* Update at lastUpdate + p does.
C7_UpdateGate ==
  [][cop'.op = "Update"
     => (/\ cop'.ran <=>
              (/\ IsConnected(alwaysOn, ifaces)
               /\ ((simTime - lastUpdate - updatePeriod) \div physics_dt) >= 0)
         /\ (updatePeriod > 0 /\ simTime < lastUpdate + updatePeriod) => ~cop'.ran
         /\ (/\ IsConnected(alwaysOn, ifaces)
             /\ updatePeriod > 0
             /\ simTime = lastUpdate + updatePeriod) => cop'.ran)]_vars

\* an update run exactly one period of 0.1 s after the last one, the step
\* being 0.05 s
C7_Witness ==
  /\ cop.op = "Update"
  /\ cop.ran
  /\ updateRate = 10
  /\ cop.elapsed = updatePeriod
  /\ physics_dt = 1
  /\ lastUpdate = simTime

\* C8: lastUpdate changes only in Init, which sets it to the simulation
\* time, and in an Update that runs UpdateChild, which sets it to the
\* simulation time; an Update that does not run it, SetUpdateRate, Reset and
\* Fini leave it unchanged.
C8_LastUpdateFrame ==
  [][/\ lastUpdate' # lastUpdate
          => (cop'.op = "Init" \/ (cop'.op = "Update" /\ cop'.ran))
     /\ cop'.op = "Init" => lastUpdate' = simTime
     /\ (cop'.op = "Update" /\ cop'.ran) => lastUpdate' = simTime
     /\ (cop'.op = "Update" /\ ~cop'.ran) => lastUpdate' = lastUpdate
     /\ cop'.op \in {"SetUpdateRate", "Reset", "Fini"} => lastUpdate' = lastUpdate]_vars

\* an update that ran after the clock had advanced
C8_Witness ==
  /\ cop.op = "Update"
  /\ cop.ran
  /\ cop.elapsed > 0
  /\ lastUpdate = simTime

\* C9: IsConnected() is true exactly when alwaysOn is set or some attached
\* interface has an open count above 0; a client opening the one interface
\* of a controller that is not alwaysOn turns it from false to true and
\* changes nothing else.
C9_ActiveIffOnOrOpen ==
  /\ [](IsConnected(alwaysOn, ifaces)
          <=> (alwaysOn \/ \E i \in 1..Len(ifaces) : ifaces[i].open > 0))
  /\ [](ifaces = <<>> => (IsConnected(alwaysOn, ifaces) <=> alwaysOn))
  /\ [][(/\ cop'.op = "IfaceOpen"
         /\ ~alwaysOn
         /\ Len(ifaces) = 1
         /\ ifaces[1].open = 0)
        => (/\ ~IsConnected(alwaysOn, ifaces)
            /\ IsConnected(alwaysOn', ifaces')
            /\ UNCHANGED <<phase, entity, parent, alwaysOn, updateRate, updatePeriod, lastUpdate,
                           simTime, physics_dt>>)]_vars

\* the one interface of a controller that is not alwaysOn has been opened
C9_Witness ==
  /\ cop.op = "IfaceOpen"
  /\ ~alwaysOn
  /\ Len(ifaces) = 1
  /\ ifaces[1].open = 1
  /\ IsConnected(alwaysOn, ifaces)

\* C10: after Fini no interface is attached, IsConnected() is false unless
\* alwaysOn is set, and no Update runs UpdateChild unless alwaysOn is set.
C10_AfterFini ==
  phase = "finished"
    => (/\ ifaces = <<>>
        /\ ~alwaysOn => ~IsConnected(alwaysOn, ifaces)
        /\ (cop.op = "Update" /\ cop.ran) => alwaysOn)

\* Fini has released the interfaces of a controller that is not alwaysOn and
\* was active through an open interface
C10_Witness ==
  /\ phase = "finished"
  /\ cop.op = "Fini"
  /\ cop.released = MaxIfaces
  /\ cop.active
  /\ ~alwaysOn
  /\ ~IsConnected(alwaysOn, ifaces)

\* C11: a Fini() immediately after a Fini() releases no interface and
\* leaves the interface collection, lastUpdate, updatePeriod and alwaysOn as
\* the first call left them.
C11_FiniIdempotent ==
  [][(cop.op = "Fini" /\ cop'.op = "Fini")
     => (/\ cop'.released = 0
         /\ UNCHANGED <<ifaces, lastUpdate, updatePeriod, alwaysOn>>)]_vars

\* a second Fini in a row, on a controller that had run an update
C11_Witness ==
  /\ cop.op = "Fini"
  /\ cop.again
  /\ cop.released = 0
  /\ ifaces = <<>>
  /\ lastUpdate > 0
  /\ updatePeriod > 0

\* C12: updatePeriod >= 0 in every state of a controller, whatever rates
\* SetUpdateRate was called with.
C12_PeriodNonNegative ==
  updatePeriod >= 0

\* C13: constructing a controller on an entity that is neither a Model nor
\* a Sensor throws, the construction does not complete and no parent is
\* bound; on a Model or a Sensor it succeeds and binds the entity as parent.
C13_HostMustBeModelOrSensor ==
  /\ [][cop'.op = "Controller"
        => IF entity \in {"Model", "Sensor"}
             THEN ~cop'.threw /\ phase' = "constructed" /\ parent' = entity
             ELSE cop'.threw /\ phase' = "failed" /\ parent' = "none"]_vars
  /\ [](phase = "failed" => (parent = "none" /\ cop.op = "Controller" /\ cop.threw))
  /\ [](phase \in {"constructed", "loaded", "running", "finished"}
          => (parent = entity /\ entity \in {"Model", "Sensor"}))

\* the constructor has thrown on a Body
C13_Witness ==
  /\ cop.op = "Controller"
  /\ cop.threw
  /\ entity = "Body"
  /\ phase = "failed"
  /\ parent = "none"

\* ------------------------------------------------- the joint's live state
\* C14: SetVelocity(i, v) with i < GetAngleCount() writes v into the live
\* solver state at velocity index i and changes nothing else; with i out of
\* range it changes nothing; either way the cached positions and velocities
\* are unchanged.
C14_SetVelocityFrame ==
  [][jop'.op = "SetVelocity"
     => (/\ jop'.index < angleCount
               => integState' = [integState EXCEPT !.u[jop'.index + 1] = jop'.value]
         /\ jop'.index >= angleCount => integState' = integState
         /\ UNCHANGED <<simbodyQ, simbodyU, everSaved, mobodValid, angleCount,
                        physicsInitialized, simbodyPhysicsInitialized,
                        simbodyPhysicsStepped>>)]_vars

\* a velocity of 1 set over a live and a cached velocity of 0
C14_Witness ==
  /\ jop.op = "SetVelocity"
  /\ jop.index < angleCount
  /\ jop.value = 1
  /\ integState.u[jop.index + 1] = 1
  /\ simbodyU # <<>>
  /\ simbodyU[jop.index + 1] = 0

\* C15: on a joint without a valid handle SaveSimbodyState changes nothing
\* in the cache and RestoreSimbodyState changes nothing in its target; on a
\* joint with a valid handle on which SaveSimbodyState has never run,
\* RestoreSimbodyState writes nothing into the target and does not resize
\* the cache.
C15_NoHandleNoEffect ==
  [][/\ (~mobodValid /\ jop'.op = "SaveSimbodyState")
          => UNCHANGED <<simbodyQ, simbodyU>>
     /\ (~mobodValid /\ jop'.op = "RestoreSimbodyState")
          => (jop'.same /\ jop'.writes = 0 /\ UNCHANGED <<simbodyQ, simbodyU>>)
     /\ (mobodValid /\ ~everSaved /\ jop'.op = "RestoreSimbodyState")
          => (jop'.same /\ jop'.writes = 0 /\ UNCHANGED <<simbodyQ, simbodyU>>)]_vars

\* a restore into a state that is not zero, on a joint without a handle on
\* which a save has been tried
C15_Witness ==
  /\ ~mobodValid
  /\ everSaved
  /\ jop.op = "RestoreSimbodyState"
  /\ ~jop.fresh
  /\ jop.same
  /\ simbodyQ = <<>>
  /\ simbodyU = <<>>

\* C16: a read with an index in range made while the solver is not ready
\* returns the default and not NaN: GetVelocity and GetAngleImpl return 0.0
\* unless the joint and the engine are initialized, GetGlobalAxis returns
\* the rotated local axis unless the engine has stepped; a NaN that does
\* not come from the live state means an index out of range.
C16_DefaultNotNaN ==
  /\ (/\ jop.op \in {"GetVelocity", "GetAngleImpl"}
      /\ jop.index < angleCount
      /\ ~(physicsInitialized /\ simbodyPhysicsInitialized))
       => (jop.ret = Num(0) /\ ~jop.live)
  /\ (/\ jop.op = "GetGlobalAxis"
      /\ jop.index < angleCount
      /\ ~simbodyPhysicsStepped)
       => (jop.ret = Num(RotatedLocalAxis) /\ ~jop.live)
  /\ (/\ jop.op \in {"GetVelocity", "GetAngleImpl", "GetGlobalAxis"}
      /\ jop.ret = NaN
      /\ ~jop.live)
       => jop.index >= angleCount

\* the axis read of an initialized joint whose engine has not stepped
C16_Witness ==
  /\ jop.op = "GetGlobalAxis"
  /\ jop.index < angleCount
  /\ physicsInitialized
  /\ simbodyPhysicsInitialized
  /\ ~simbodyPhysicsStepped
  /\ jop.ret = Num(RotatedLocalAxis)
  /\ ~jop.live

\* C17: once the joint and the engine are initialized, GetVelocity(i) and
\* GetAngleImpl(i) with i in range return the value the live solver state
\* holds at i; the cache changes in SaveSimbodyState only, so after a save
\* and a change of the live state the getters return the new live value
\* while the cache holds the saved one.
C17_ReadsLiveState ==
  /\ []((/\ jop.op = "GetVelocity"
         /\ jop.index < angleCount
         /\ physicsInitialized /\ simbodyPhysicsInitialized)
          => (jop.live /\ jop.ret = Num(integState.u[jop.index + 1])))
  /\ []((/\ jop.op = "GetAngleImpl"
         /\ jop.index < angleCount
         /\ physicsInitialized /\ simbodyPhysicsInitialized)
          => (jop.live /\ jop.ret = Num(integState.q[jop.index + 1])))
  /\ [][jop'.op # "SaveSimbodyState" => UNCHANGED <<simbodyQ, simbodyU>>]_vars

\* an angle of 1 read from the live state while the cache holds the 0 saved
\* before the engine stepped
C17_Witness ==
  /\ jop.op = "GetAngleImpl"
  /\ jop.index < angleCount
  /\ physicsInitialized /\ simbodyPhysicsInitialized
  /\ everSaved
  /\ simbodyQ # <<>>
  /\ simbodyQ[jop.index + 1] = 0
  /\ integState.q[jop.index + 1] = 1
  /\ jop.ret = Num(1)

\* -------------------------------------------------- the update schedule
\* C18: with rate 0 and so updatePeriod 0, an Update after Init runs
\* UpdateChild if IsConnected() is true at the call and does not if it is
\* false.
C18_ZeroPeriodEveryUpdate ==
  [][(cop'.op = "Update" /\ updateRate = 0 /\ updatePeriod = 0)
     => (cop'.ran <=> IsConnected(alwaysOn, ifaces))]_vars

\* a second Update within one tick that ran, the controller being active
\* through an open interface
C18_Witness ==
  /\ cop.op = "Update"
  /\ cop.ran
  /\ cop.elapsed = 0
  /\ updateRate = 0
  /\ updatePeriod = 0
  /\ ~alwaysOn
  /\ simTime > 0

\* C19: in the simulation loop (the clock advances by a positive step each
\* tick, Update is called each tick, the period is fixed) an active
\* controller runs UpdateChild again and again; an Update runs it exactly
\* when the time since the last run (or Init) is at least updatePeriod,
\* and then at the previous tick it was not yet: each run comes after the
\* smallest number of ticks that make up updatePeriod.
C19_RunsEveryPeriod ==
  /\ []((phase = "running" /\ IsConnected(alwaysOn, ifaces))
          => []<>(cop.op = "Update" /\ cop.ran))
  /\ [][(cop'.op = "Update" /\ IsConnected(alwaysOn, ifaces))
        => (/\ cop'.ran <=> cop'.elapsed >= updatePeriod
            /\ cop'.ran => (\/ cop'.elapsed - physics_dt < updatePeriod
                            \/ cop'.elapsed = physics_dt))]_vars

\* the second run of a 10 Hz controller stepped at 20 Hz, two ticks after
\* the first
C19_Witness ==
  /\ cop.op = "Update"
  /\ cop.ran
  /\ updateRate = 10
  /\ physics_dt = 1
  /\ cop.elapsed = updatePeriod
  /\ simTime = 2 * updatePeriod
  /\ lastUpdate = simTime

\* ------------------------------------------------------------ interfaces
\* C20: GetIface(type, mandatory, number) returns the interface at
\* zero-based position number among the attached interfaces of the type, in
\* attachment order, when at least number + 1 of them are attached; when
\* fewer are attached it returns NULL if mandatory is false and throws if
\* mandatory is true; it never changes the interface collection.
C20_GetIfaceByPosition ==
  [][cop'.op = "GetIface"
     => LET ofType == {i \in 1..Len(ifaces) : ifaces[i].type = cop'.arg.type}
            before(i) == Cardinality({j \in ofType : j < i})
        IN /\ Cardinality(ofType) >= cop'.arg.number + 1
                => (/\ ~cop'.threw
                    /\ cop'.ret \in ofType
                    /\ before(cop'.ret) = cop'.arg.number)
           /\ Cardinality(ofType) < cop'.arg.number + 1
                => (cop'.ret = 0 /\ (cop'.threw <=> cop'.arg.mandatory))
           /\ ifaces' = ifaces]_vars
====
